---- MODULE Spec2Model ----
(***************************************************************************)
(* Task Manager API with Google OAuth: the login callback (passport        *)
(* GoogleStrategy verify callback), the express-session/passport session   *)
(* pipeline, the auth routes, the authentication guard and the task        *)
(* routes behind it.                                                       *)
(*                                                                         *)
(* One action is one HTTP request, from the session middleware to the end  *)
(* of the response; the response of a request is an operator of the state  *)
(* the request is served in (XxxResponse) and the action (Xxx) is what it  *)
(* does to the stores.                                                     *)
(* Time is counted in units of 12 hours, so cookie.maxAge (24 h) is 2.     *)
(***************************************************************************)
EXTENDS Integers, FiniteSets, Sequences, TLC

VARIABLES
  users,      \* the User collection: _id -> document
  nextUid,    \* the next _id the store generates
  sessions,   \* the session store (MemoryStore): session id -> session
  nextSid,    \* the next session id express-session generates
  revoked,    \* history: the session ids a logout was performed on
  tasks,      \* the Task collection: _id -> document
  nextTid,    \* the next Task _id
  now,        \* Date.now()
  pending     \* login callbacks between their findOne and their create

vars ==
  <<users, nextUid, sessions, nextSid, revoked, tasks, nextTid, now, pending>>

\* ------------------------------------------------------------------ bounds
MaxTime == 2
MaxSid == 2
MaxUid == 2
MaxTid == 1
MaxPending == 2

\* cookie.maxAge: 24 * 60 * 60 * 1000 ms, in units of 12 hours
maxAge == 2

None == 0
NoId == "no-sub"
NoEmail == "no-email"

\* What the provider hands to the verify callback: the normalized profile.
\* displayName, name and photo say whether profile.displayName, profile.name
\* and profile.photos are present.
GoogleProfile(i, e, d, n, ph) ==
  [id |-> i, email |-> e, displayName |-> d, name |-> n, photo |-> ph]

\* Two subjects with an address each, the second subject also under the
\* first one's address, and the first subject's profile with a field missing.
Profiles ==
  {GoogleProfile("g-1", "a@x.com", TRUE, TRUE, TRUE),
   GoogleProfile("g-2", "b@x.com", TRUE, TRUE, TRUE),
   GoogleProfile("g-2", "a@x.com", TRUE, TRUE, TRUE),
   GoogleProfile("g-1", "a@x.com", TRUE, FALSE, TRUE),
   GoogleProfile("g-1", "a@x.com", TRUE, TRUE, FALSE),
   GoogleProfile("g-1", "a@x.com", TRUE, FALSE, FALSE),
   GoogleProfile("g-1", "a@x.com", FALSE, TRUE, TRUE),
   GoogleProfile("g-1", NoEmail, TRUE, TRUE, TRUE),
   GoogleProfile(NoId, "a@x.com", TRUE, TRUE, TRUE)}

NoProfile == GoogleProfile(NoId, NoEmail, FALSE, FALSE, FALSE)

\* The outcome of the OAuth round trip of a callback request.
ProviderOutcomes == {"denied", "exchange_failed", "profile"}

\* ------------------------------------------------------------ responses
\* A response: the status line, the Location of a redirect, the fields of
\* the JSON body (user: the _id under body.user, data: the _ids of the tasks
\* under body.data, errorDetail: the body carries err.message), the user
\* attached to the request (reqUser), whether a task handler ran, and the
\* session id of the Set-Cookie header.
Response ==
  [status |-> 200, location |-> "", success |-> TRUE, message |-> "",
   redirectTo |-> "", authenticated |-> "absent", user |-> None,
   data |-> {}, errorDetail |-> FALSE,
   reqUser |-> None, handler |-> FALSE, setSid |-> None]

\* app.use((err, req, res, next) => ...): 500 with err.message in the body
ErrorHandler ==
  [Response EXCEPT !.status = 500, !.success = FALSE,
                   !.message = "Something went wrong!", !.errorDetail = TRUE]

\* ------------------------------------------------------------- sessions
\* The store returns a session only while its cookie.expires is in the future.
Live(h) == h \in DOMAIN sessions /\ sessions[h].expires > now

\* session.touch(): cookie.maxAge = originalMaxAge, so expires = now + maxAge
touch(sess) == [sess EXCEPT !.expires = now + maxAge]

\* The end of a response that touches whatever session the cookie names,
\* expired or not.
SessionEnd_touchesExpired(h, userGone) ==
  IF h \notin DOMAIN sessions THEN sessions
  ELSE [sessions EXCEPT ![h] =
          touch(IF userGone THEN [@ EXCEPT !.user = None] ELSE @)]

\* The end of every response (resave: false, no rolling): the session the
\* request loaded is touched in the store, or saved when it was modified
\* (passport removed a user that no longer resolves); an expired one is
\* dropped by the store's get.
SessionEnd(h, userGone) ==
  IF h \notin DOMAIN sessions THEN sessions
  ELSE IF ~Live(h) THEN [k \in DOMAIN sessions \ {h} |-> sessions[k]]
  ELSE [sessions EXCEPT ![h] =
          touch(IF userGone THEN [@ EXCEPT !.user = None] ELSE @)]

\* session.regenerate() followed by save: the request's session is destroyed
\* and a new one is stored under a new id.
Regenerate(h, sid, uid) ==
  [k \in (DOMAIN sessions \ {h}) \cup {sid} |->
     IF k = sid
     THEN [user |-> uid, expires |-> now + maxAge, issuedAt |-> now]
     ELSE sessions[k]]

\* passport.serializeUser: the session keeps user.id
serializeUser(user) == user.id

\* deserializeUser looking up a user without the id (findOne()).
deserializeUser_ignoresId(id, db) ==
  IF ~db THEN [err |-> TRUE, user |-> None]
  ELSE [err |-> FALSE,
        user |-> IF DOMAIN users = {} THEN None
                 ELSE CHOOSE u \in DOMAIN users : \A w \in DOMAIN users : u <= w]

\* deserializeUser passing the id on without looking at what findById found.
deserializeUser_skipsNull(id, db) ==
  IF ~db THEN [err |-> TRUE, user |-> None] ELSE [err |-> FALSE, user |-> id]

\* passport.deserializeUser: User.findById(id); a rejected lookup is an error,
\* a missing document is null
deserializeUser(id, db) ==
  IF ~db THEN [err |-> TRUE, user |-> None]
  ELSE [err |-> FALSE, user |-> IF id \in DOMAIN users THEN id ELSE None]

\* passport.session(): the user the session names is looked up on every
\* request; when none is found the session loses its user.
SessionUser(h) == IF Live(h) THEN sessions[h].user ELSE None

Authenticate(h, db) ==
  IF SessionUser(h) = None
  THEN [err |-> FALSE, user |-> None, userGone |-> FALSE]
  ELSE LET d == deserializeUser(SessionUser(h), db)
       IN [err |-> d.err, user |-> d.user,
           userGone |-> ~d.err /\ d.user = None]

\* Whether the request calls the store while its session is resolved.
NeedsLookup(h) == SessionUser(h) # None

\* req.isAuthenticated()
isAuthenticated(reqUser) == reqUser # None

\* The session cookies a client can present: none, or an id that was issued.
Cookies == {None} \cup (1 .. (nextSid - 1))

\* The store calls of a request either all succeed or reject (the database
\* is unavailable); a request that makes none has nothing to fail.
DbChoices(calls) == IF calls THEN BOOLEAN ELSE {TRUE}

\* ------------------------------------------------------ Account Reconciler
\* User.findOne({ googleId })
FindByGoogleId(gid) == {u \in DOMAIN users : users[u].googleId = gid}

\* The create branch reads profile.emails[0].value, profile.name.givenName,
\* profile.name.familyName and profile.photos[0].value: a TypeError when
\* profile.emails, profile.name or profile.photos is absent.
ProfileReadable(p) == p.email # NoEmail /\ p.name /\ p.photo

\* userSchema: googleId, email and displayName are required
SchemaValid(doc) ==
  doc.googleId # NoId /\ doc.email # NoEmail /\ doc.displayName

\* A schema whose googleId is not declared unique.
UniqueIndexOk_emailOnly(doc) ==
  \A u \in DOMAIN users : users[u].email # doc.email

\* userSchema: googleId and email are unique
UniqueIndexOk(doc) ==
  \A u \in DOMAIN users :
    users[u].googleId # doc.googleId /\ users[u].email # doc.email

\* The document User.create builds; createdAt and lastLogin default to Date.now
NewUser(p) ==
  [id |-> nextUid, googleId |-> p.id, email |-> p.email,
   displayName |-> p.displayName, firstName |-> p.name, picture |-> p.photo,
   createdAt |-> now, lastLogin |-> now]

VerifyError(ins) ==
  [err |-> TRUE, user |-> None, users |-> users, created |-> FALSE,
   inserts |-> ins, updates |-> 0]

\* The create branch of the verify callback: the reads of the profile, then
\* User.create (validation, then the insert against the unique indexes);
\* whatever throws ends in done(error, null).
create(p) ==
  IF ~ProfileReadable(p) THEN VerifyError(0)
  ELSE IF ~SchemaValid(NewUser(p)) THEN VerifyError(0)
  ELSE IF ~UniqueIndexOk(NewUser(p)) THEN VerifyError(1)
  ELSE [err |-> FALSE, user |-> nextUid,
        users |-> [k \in DOMAIN users \cup {nextUid} |->
                     IF k = nextUid THEN NewUser(p) ELSE users[k]],
        created |-> TRUE, inserts |-> 1, updates |-> 0]

\* A save that writes the creation timestamp along with lastLogin.
SaveLastLogin_resetsCreatedAt(u) ==
  [users EXCEPT ![u].lastLogin = now, ![u].createdAt = now]

\* user.lastLogin = Date.now(); await user.save()
SaveLastLogin(u) == [users EXCEPT ![u].lastLogin = now]

\* A verify callback that sets lastLogin and saves after the create as well.
verify_savesAfterCreate(p, db) ==
  IF ~db THEN VerifyError(0)
  ELSE IF FindByGoogleId(p.id) # {}
  THEN LET u == CHOOSE u \in FindByGoogleId(p.id) : TRUE
       IN [err |-> FALSE, user |-> u,
           users |-> SaveLastLogin(u),
           created |-> FALSE, inserts |-> 0, updates |-> 1]
  ELSE IF ~ProfileReadable(p) THEN VerifyError(0)
  ELSE IF ~SchemaValid(NewUser(p)) THEN VerifyError(0)
  ELSE IF ~UniqueIndexOk(NewUser(p)) THEN VerifyError(1)
  ELSE [err |-> FALSE, user |-> nextUid,
        users |-> [k \in DOMAIN users \cup {nextUid} |->
                     IF k = nextUid THEN NewUser(p) ELSE users[k]],
        created |-> TRUE, inserts |-> 1, updates |-> 1]

\* The GoogleStrategy verify callback: find by googleId; when found set
\* lastLogin and save; otherwise create; any throw ends in done(error, null).
verify(p, db) ==
  IF ~db THEN VerifyError(0)
  ELSE IF FindByGoogleId(p.id) # {}
  THEN LET u == CHOOSE u \in FindByGoogleId(p.id) : TRUE
       IN [err |-> FALSE, user |-> u,
           users |-> SaveLastLogin(u),
           created |-> FALSE, inserts |-> 0, updates |-> 1]
  ELSE create(p)

\* ------------------------------------------------------------ auth routes
\* GET /auth/google/callback: passport.authenticate('google',
\* { failureRedirect: '/login-failed' }), then res.redirect('/dashboard').
\* x is the outcome of the OAuth round trip and p the profile it yields.
\* A denied authorization is strategy.fail (the failureRedirect); a failed
\* code exchange and done(error) of the verify callback are strategy.error,
\* which goes to next(err) and the error handler.
LoggedIn(h, x, p, db) ==
  ~Authenticate(h, db).err /\ x = "profile" /\ ~verify(p, db).err

CallbackResponse(h, x, p, db) ==
  LET a == Authenticate(h, db)
      v == verify(p, db)
  IN IF a.err THEN ErrorHandler
     ELSE IF x = "denied"
     THEN [Response EXCEPT !.status = 302, !.location = "/login-failed",
                           !.reqUser = a.user]
     ELSE IF x = "exchange_failed" THEN [ErrorHandler EXCEPT !.reqUser = a.user]
     ELSE IF v.err THEN [ErrorHandler EXCEPT !.reqUser = a.user]
     ELSE [Response EXCEPT !.status = 302, !.location = "/dashboard",
                           !.reqUser = v.user, !.setSid = nextSid]

GoogleCallback(h, x, p, db) ==
  LET a == Authenticate(h, db)
      v == verify(p, db)
  IN /\ UNCHANGED <<revoked, tasks, nextTid, now, pending>>
     /\ IF ~LoggedIn(h, x, p, db)
        THEN /\ sessions' = SessionEnd(h, a.userGone)
             /\ UNCHANGED <<users, nextUid, nextSid>>
        ELSE /\ v.created => nextUid <= MaxUid
             /\ nextSid <= MaxSid
             /\ users' = v.users
             /\ nextUid' = IF v.created THEN nextUid + 1 ELSE nextUid
             /\ sessions' = Regenerate(h, nextSid, serializeUser(v.users[v.user]))
             /\ nextSid' = nextSid + 1

\* A logout that destroys every session of the session's user.
logOut_everySession(h) ==
  [k \in {j \in DOMAIN sessions :
            j # h /\ (h \notin DOMAIN sessions
                      \/ sessions[j].user # sessions[h].user)} |->
     sessions[k]]

\* A logout that answers without touching the session.
logOut_keepsSession(h) == sessions

\* req.logout(): the user is removed from the session and the session is
\* regenerated, which destroys it in the store.
logOut(h) == [k \in DOMAIN sessions \ {h} |-> sessions[k]]

\* ensureGuest: redirect to /dashboard when req.isAuthenticated(), otherwise
\* next().  The middleware is exported; no route of the routers uses it.
ensureGuest(reqUser) == ~isAuthenticated(reqUser)

\* Where passport.authenticate('google', { scope }) sends the client.
ProviderUrl == "https://accounts.google.com/o/oauth2/v2/auth"

\* GET /auth/google: passport.authenticate('google', { scope: [...] }) with
\* nothing in front of it: the redirect to the provider's consent screen.
GoogleResponse(h, db) ==
  LET a == Authenticate(h, db)
  IN IF a.err THEN ErrorHandler
     ELSE [Response EXCEPT !.status = 302, !.location = ProviderUrl,
                           !.reqUser = a.user]

\* GET /auth/logout
LogoutResponse(h, db) ==
  IF Authenticate(h, db).err THEN ErrorHandler
  ELSE [Response EXCEPT !.message = "Logged out successfully",
                        !.reqUser = Authenticate(h, db).user]

Logout(h, db) ==
  /\ UNCHANGED <<users, nextUid, nextSid, tasks, nextTid, now, pending>>
  /\ IF Authenticate(h, db).err
     THEN sessions' = SessionEnd(h, FALSE) /\ UNCHANGED revoked
     ELSE sessions' = logOut(h) /\ revoked' = revoked \cup ({h} \ {None})

\* GET /auth/status
StatusResponse(h, db) ==
  LET a == Authenticate(h, db)
  IN IF a.err THEN ErrorHandler
     ELSE IF isAuthenticated(a.user)
     THEN [Response EXCEPT !.authenticated = "true", !.user = a.user,
                           !.reqUser = a.user]
     ELSE [Response EXCEPT !.authenticated = "false",
                           !.message = "Not authenticated"]

\* GET /auth/profile
ProfileResponse(h, db) ==
  LET a == Authenticate(h, db)
  IN IF a.err THEN ErrorHandler
     ELSE IF ~isAuthenticated(a.user)
     THEN [Response EXCEPT !.status = 401, !.success = FALSE,
                           !.message = "Authentication required"]
     ELSE [Response EXCEPT !.user = a.user, !.reqUser = a.user]

\* GET /dashboard
DashboardResponse(h, db) ==
  LET a == Authenticate(h, db)
  IN IF a.err THEN ErrorHandler
     ELSE IF ~isAuthenticated(a.user)
     THEN [Response EXCEPT !.status = 401, !.success = FALSE,
                           !.message = "Please login to access dashboard"]
     ELSE [Response EXCEPT !.user = a.user, !.reqUser = a.user]

\* What a request that only reads does to the stores: the end of its response.
ReadOnly(h, db) ==
  /\ sessions' = SessionEnd(h, Authenticate(h, db).userGone)
  /\ UNCHANGED <<users, nextUid, nextSid, revoked, tasks, nextTid, now, pending>>

Status(h, db) == StatusResponse(h, db).status \in {200, 500} /\ ReadOnly(h, db)
Profile(h, db) == ProfileResponse(h, db).status \in {200, 401, 500} /\ ReadOnly(h, db)
Dashboard(h, db) == DashboardResponse(h, db).status \in {200, 401, 500} /\ ReadOnly(h, db)
Google(h, db) == GoogleResponse(h, db).status \in {302, 500} /\ ReadOnly(h, db)

\* ------------------------------------------------------------ task routes
\* A guard that calls next() for every request.
ensureAuthenticated_always(reqUser) == TRUE

\* ensureAuthenticated: next() when req.isAuthenticated(), otherwise 401
ensureAuthenticated(reqUser) == isAuthenticated(reqUser)

AuthRequired ==
  [Response EXCEPT !.status = 401, !.success = FALSE,
                   !.message = "Authentication required. Please login first.",
                   !.redirectTo = "/auth/google"]

NotFound(uid) ==
  [Response EXCEPT !.status = 404, !.success = FALSE,
                   !.message = "Task not found",
                   !.reqUser = uid, !.handler = TRUE]

Handled(uid, code, ids) ==
  [Response EXCEPT !.status = code, !.data = ids, !.reqUser = uid,
                   !.handler = TRUE]

\* A lookup by id alone, whoever the owner is.
FindOwnedTask_anyOwner(t, uid) == IF t \in DOMAIN tasks THEN t ELSE None

\* The ownership filter of the task controller: the task with this id that
\* the requester owns, if any.
FindOwnedTask(t, uid) ==
  IF t \in DOMAIN tasks /\ tasks[t].userId = uid THEN t ELSE None

getAllTasks(uid) ==
  [resp |-> Handled(uid, 200, {t \in DOMAIN tasks : tasks[t].userId = uid}),
   tasks |-> tasks]

getTaskById(t, uid) ==
  [resp |-> IF FindOwnedTask(t, uid) = None THEN NotFound(uid)
            ELSE Handled(uid, 200, {t}),
   tasks |-> tasks]

createTask(title, uid) ==
  IF title = ""
  THEN [resp |-> [Handled(uid, 400, {}) EXCEPT !.success = FALSE,
                                               !.message = "Validation error"],
        tasks |-> tasks]
  ELSE [resp |-> Handled(uid, 201, {nextTid}),
        tasks |-> [k \in DOMAIN tasks \cup {nextTid} |->
                     IF k = nextTid
                     THEN [id |-> nextTid, userId |-> uid, title |-> title,
                           status |-> "pending"]
                     ELSE tasks[k]]]

updateTask(t, st, uid) ==
  IF FindOwnedTask(t, uid) = None
  THEN [resp |-> NotFound(uid), tasks |-> tasks]
  ELSE [resp |-> Handled(uid, 200, {t}),
        tasks |-> [tasks EXCEPT ![t].status = st]]

deleteTask(t, uid) ==
  IF FindOwnedTask(t, uid) = None
  THEN [resp |-> NotFound(uid), tasks |-> tasks]
  ELSE [resp |-> Handled(uid, 200, {t}),
        tasks |-> [k \in DOMAIN tasks \ {t} |-> tasks[k]]]

\* router.use(ensureAuthenticated) in front of the handlers of the task
\* controller: whether the request reaches its handler (next), the user it
\* carries there, and the result when it does not.
TaskRoute(h, db) ==
  LET a == Authenticate(h, db)
  IN IF a.err
     THEN [next |-> FALSE, user |-> None,
           result |-> [resp |-> ErrorHandler, tasks |-> tasks]]
     ELSE IF ~ensureAuthenticated(a.user)
     THEN [next |-> FALSE, user |-> None,
           result |-> [resp |-> AuthRequired, tasks |-> tasks]]
     ELSE [next |-> TRUE, user |-> a.user,
           result |-> [resp |-> Response, tasks |-> tasks]]

TasksListResult(h, db) ==
  LET g == TaskRoute(h, db)
  IN IF g.next THEN getAllTasks(g.user) ELSE g.result
TasksGetResult(h, t, db) ==
  LET g == TaskRoute(h, db)
  IN IF g.next THEN getTaskById(t, g.user) ELSE g.result
TasksCreateResult(h, title, db) ==
  LET g == TaskRoute(h, db)
  IN IF g.next THEN createTask(title, g.user) ELSE g.result
TasksUpdateResult(h, t, st, db) ==
  LET g == TaskRoute(h, db)
  IN IF g.next THEN updateTask(t, st, g.user) ELSE g.result
TasksDeleteResult(h, t, db) ==
  LET g == TaskRoute(h, db)
  IN IF g.next THEN deleteTask(t, g.user) ELSE g.result

\* The stores after a request to a task route with result r.
TaskRequest(h, db, r) ==
  /\ sessions' = SessionEnd(h, Authenticate(h, db).userGone)
  /\ tasks' = r.tasks
  /\ nextTid' = IF nextTid \in DOMAIN r.tasks THEN nextTid + 1 ELSE nextTid
  /\ UNCHANGED <<users, nextUid, nextSid, revoked, now, pending>>

TaskIds == 1 .. MaxTid
Titles == {"", "T1"}
Statuses == {"pending", "completed"}

TasksList(h, db) == TaskRequest(h, db, TasksListResult(h, db))
TasksGet(h, t, db) == TaskRequest(h, db, TasksGetResult(h, t, db))
TasksCreate(h, title, db) ==
  /\ nextTid <= MaxTid
  /\ TaskRequest(h, db, TasksCreateResult(h, title, db))
TasksUpdate(h, t, st, db) == TaskRequest(h, db, TasksUpdateResult(h, t, st, db))
TasksDelete(h, t, db) == TaskRequest(h, db, TasksDeleteResult(h, t, db))

\* --------------------------------------------------- interleaved callbacks
\* The verify callback awaits User.findOne and then User.create, and other
\* requests run between the two.  A callback of a client without a session
\* whose findOne found no user waits in pending with its profile.  The
\* profiles are the complete ones: the others fail before the insert.
RaceProfiles ==
  {p \in Profiles : ProfileReadable(p) /\ p.id # NoId /\ p.displayName}

CallbackFindOne(p) ==
  /\ Len(pending) < MaxPending
  /\ FindByGoogleId(p.id) = {}
  /\ pending' = Append(pending, p)
  /\ UNCHANGED <<users, nextUid, sessions, nextSid, revoked, tasks, nextTid,
                 now>>

\* The response of the waiting callback i when it resumes with the create.
CallbackCreateResponse(i) ==
  LET v == create(pending[i])
  IN IF v.err THEN ErrorHandler
     ELSE [Response EXCEPT !.status = 302, !.location = "/dashboard",
                           !.reqUser = v.user, !.setSid = nextSid]

\* The waiting callback i resumes: User.create, then done(null, user) and
\* req.logIn, or done(error, null).
CallbackCreate(i) ==
  LET v == create(pending[i])
  IN /\ i \in DOMAIN pending
     /\ pending' = SubSeq(pending, 1, i - 1)
                     \o SubSeq(pending, i + 1, Len(pending))
     /\ UNCHANGED <<revoked, tasks, nextTid, now>>
     /\ IF v.err
        THEN UNCHANGED <<users, nextUid, sessions, nextSid>>
        ELSE /\ nextUid <= MaxUid
             /\ nextSid <= MaxSid
             /\ users' = v.users
             /\ nextUid' = nextUid + 1
             /\ sessions' = Regenerate(None, nextSid,
                                       serializeUser(v.users[v.user]))
             /\ nextSid' = nextSid + 1

\* ------------------------------------------------------------ environment
\* Date.now() advances.
Tick ==
  /\ now < MaxTime
  /\ now' = now + 1
  /\ UNCHANGED <<users, nextUid, sessions, nextSid, revoked, tasks, nextTid,
                 pending>>

\* An Account is removed from the store by something other than this server.
DeleteAccount(u) ==
  /\ u \in DOMAIN users
  /\ users' = [k \in DOMAIN users \ {u} |-> users[k]]
  /\ UNCHANGED <<nextUid, sessions, nextSid, revoked, tasks, nextTid, now, pending>>

\* ---------------------------------------------------------- specification
Init ==
  /\ users = [k \in {} |-> None]
  /\ nextUid = 1
  /\ sessions = [k \in {} |-> None]
  /\ nextSid = 1
  /\ revoked = {}
  /\ tasks = [k \in {} |-> None]
  /\ nextTid = 1
  /\ now = 0
  /\ pending = <<>>

\* The store answers or rejects the lookup of the user of h's session.
Db(h) == DbChoices(NeedsLookup(h))

\* The callbacks a client can make with cookie h: the provider outcome, the
\* profile and whether the store answers.  With the store down every
\* profile ends alike (findOne rejects), so one profile stands for them.
LoginInputs(h) ==
  [x : ProviderOutcomes \ {"profile"}, p : {NoProfile},
   db : Db(h)]
  \cup [x : {"profile"}, p : Profiles, db : {TRUE}]
  \cup [x : {"profile"},
        p : {GoogleProfile("g-1", "a@x.com", TRUE, TRUE, TRUE)},
        db : {FALSE}]

Login ==
  \E h \in Cookies : \E i \in LoginInputs(h) : GoogleCallback(h, i.x, i.p, i.db)

\* A request to each route, with any cookie.
GetGoogle == \E h \in Cookies : \E db \in Db(h) : Google(h, db)
GetLogout == \E h \in Cookies : \E db \in Db(h) : Logout(h, db)
GetStatus == \E h \in Cookies : \E db \in Db(h) : Status(h, db)
GetProfile == \E h \in Cookies : \E db \in Db(h) : Profile(h, db)
GetDashboard == \E h \in Cookies : \E db \in Db(h) : Dashboard(h, db)
ListTasks == \E h \in Cookies : \E db \in Db(h) : TasksList(h, db)
GetTask ==
  \E h \in Cookies : \E db \in Db(h) : \E t \in TaskIds : TasksGet(h, t, db)
CreateTask ==
  \E h \in Cookies : \E db \in Db(h) : \E title \in Titles :
    TasksCreate(h, title, db)
UpdateTask ==
  \E h \in Cookies : \E db \in Db(h) : \E t \in TaskIds : \E st \in Statuses :
    TasksUpdate(h, t, st, db)
DeleteTask ==
  \E h \in Cookies : \E db \in Db(h) : \E t \in TaskIds : TasksDelete(h, t, db)
RemoveAccount == \E u \in DOMAIN users : DeleteAccount(u)

\* The whole server.
Next ==
  \/ GetGoogle
  \/ Login
  \/ GetLogout
  \/ GetStatus
  \/ GetProfile
  \/ GetDashboard
  \/ ListTasks
  \/ GetTask
  \/ CreateTask
  \/ UpdateTask
  \/ DeleteTask
  \/ Tick
  \/ RemoveAccount

Spec == Init /\ [][Next]_vars

\* The authentication and session lifecycle: logins, logouts and a request
\* that only reads, with time passing and accounts removed.  The other
\* routes that only read do to the stores what GET /auth/status does.
NextAuth ==
  \/ Login
  \/ GetLogout
  \/ GetStatus
  \/ Tick
  \/ RemoveAccount

SpecAuth == Init /\ [][NextAuth]_vars

\* The task routes behind the guard, with logins and logouts.
NextTasks ==
  \/ Login
  \/ GetLogout
  \/ ListTasks
  \/ GetTask
  \/ CreateTask
  \/ UpdateTask
  \/ DeleteTask

SpecTasks == Init /\ [][NextTasks]_vars

\* The server by itself, no Account being removed behind it: every route
\* that does not write Tasks (the auth routes, /dashboard and the guarded
\* task list), with time passing.
NextCore ==
  \/ GetGoogle
  \/ Login
  \/ GetLogout
  \/ GetStatus
  \/ GetProfile
  \/ GetDashboard
  \/ ListTasks
  \/ Tick

SpecCore == Init /\ [][NextCore]_vars

\* Login callbacks that interleave between findOne and create, beside
\* callbacks that run through, and logouts.
FindOne == \E p \in RaceProfiles : CallbackFindOne(p)
Create == \E i \in DOMAIN pending : CallbackCreate(i)

NextRace ==
  \/ Login
  \/ FindOne
  \/ Create
  \/ GetLogout

SpecRace == Init /\ [][NextRace]_vars

\* =================================================================== claims
\* A session validates: it is in the store, not expired, and the Account it
\* is bound to exists.
Validates(h) ==
  /\ h \in DOMAIN sessions
  /\ sessions[h].expires > now
  /\ sessions[h].user \in DOMAIN users

\* The lookup of the session's user is attempted and the store rejects it.
StoreFails(h, db) ==
  h \in DOMAIN sessions /\ sessions[h].expires > now
  /\ sessions[h].user # None /\ ~db

\* P holds of the result of every request a client can make to a task route.
ForAllTaskResults(h, db, P(_)) ==
  /\ P(TasksListResult(h, db))
  /\ \A t \in TaskIds : P(TasksGetResult(h, t, db))
  /\ \A title \in Titles : P(TasksCreateResult(h, title, db))
  /\ \A t \in TaskIds : \A st \in Statuses : P(TasksUpdateResult(h, t, st, db))
  /\ \A t \in TaskIds : P(TasksDeleteResult(h, t, db))

\* The 401 of the guard: a message and the login entry point.
IsAuthRequired(r) ==
  /\ r.status = 401
  /\ r.success = FALSE
  /\ r.message # ""
  /\ r.redirectTo = "/auth/google"
  /\ r.data = {} /\ r.user = None
  /\ ~r.handler

AccountsOf(us, gid) == {u \in DOMAIN us : us[u].googleId = gid}

\* -------------------------------------------------------------------- C1
\* C1: reconciling a verified profile (subject id and email present) whose
\* subject id is not stored succeeds and creates exactly one Account with
\* that subject id; reconciling a profile whose subject id is stored
\* succeeds, leaves the number of Accounts as it was and changes no field of
\* that Account other than lastLogin.
C1_ReconcileCreatesOnce ==
  \A p \in Profiles :
    (p.id # NoId /\ p.email # NoEmail) =>
      LET v == verify(p, TRUE)
      IN /\ ~v.err
         /\ IF AccountsOf(users, p.id) = {}
            THEN /\ Cardinality(AccountsOf(v.users, p.id)) = 1
                 /\ Cardinality(DOMAIN v.users) = Cardinality(DOMAIN users) + 1
            ELSE /\ DOMAIN v.users = DOMAIN users
                 /\ \A u \in DOMAIN users :
                      [v.users[u] EXCEPT !.lastLogin = users[u].lastLogin]
                        = users[u]

\* -------------------------------------------------------------------- C2
\* The sessions the store would return now.
LiveStore ==
  [k \in {j \in DOMAIN sessions : sessions[j].expires > now} |-> sessions[k]]

C3_GuardBeforeHandlers ==
  \A h \in Cookies : \A db \in BOOLEAN :
    LET Guarded(r) ==
          /\ (~Validates(h) /\ ~StoreFails(h, db)) => IsAuthRequired(r.resp)
          /\ ~r.resp.handler => r.tasks = tasks
          /\ r.resp.handler =>
               /\ Validates(h)
               /\ r.resp.reqUser \in DOMAIN users
               /\ r.resp.reqUser = sessions[h].user
    IN ForAllTaskResults(h, db, Guarded)

\* A session that validates (a handler runs) beside one that expired (401).
C3_Witness ==
  \E h1, h2 \in Cookies :
    /\ Validates(h1) /\ TasksCreateResult(h1, "T1", TRUE).resp.handler
    /\ h2 \in DOMAIN sessions /\ sessions[h2].expires <= now
    /\ TasksCreateResult(h2, "T1", TRUE).resp.status = 401

\* -------------------------------------------------------------------- C4
\* An id that no Task has.
AbsentTaskId == MaxTid + 1

\* C4: a request authenticated as B that gets, updates or deletes by id a
\* Task owned by another Account answers 404 with no task data, the same
\* response as for an id that does not exist, and leaves the Task collection
\* unchanged.
C4_NotOwnedIsNotFound ==
  \A h \in Cookies : \A t \in DOMAIN tasks : \A st \in Statuses :
    LET b == Authenticate(h, TRUE).user
        rs == {TasksGetResult(h, t, TRUE), TasksUpdateResult(h, t, st, TRUE),
               TasksDeleteResult(h, t, TRUE)}
    IN (b # None /\ tasks[t].userId # b) =>
         \A r \in rs :
           /\ r.resp.status = 404
           /\ r.resp.data = {}
           /\ r.resp = TasksGetResult(h, AbsentTaskId, TRUE).resp
           /\ r.tasks = tasks

\* B holds a valid session while a Task of A, whose Account exists, is stored,
\* and B's request for it is answered.
C4_Witness ==
  \E h \in Cookies : \E t \in DOMAIN tasks :
    /\ Validates(h)
    /\ tasks[t].userId \in DOMAIN users
    /\ tasks[t].userId # sessions[h].user
    /\ TasksGetResult(h, t, TRUE).resp.handler

\* -------------------------------------------------------------------- C5
\* The session is live and bound to an Account id that is not stored.
Orphaned(h) ==
  /\ h \in DOMAIN sessions /\ sessions[h].expires > now
  /\ sessions[h].user # None /\ sessions[h].user \notin DOMAIN users

\* C5: a request with a live session bound to an Account id that is not in
\* the store has no user attached and no handler runs for it; when the
\* lookup answers, /auth/status says authenticated false, /auth/profile and
\* /dashboard answer 401 and every task route answers the guard's 401.
C5_OrphanedSessionIsInvalid ==
  \A h \in Cookies : Orphaned(h) =>
    /\ \A db \in BOOLEAN :
         /\ Authenticate(h, db).user = None
         /\ StatusResponse(h, db).reqUser = None
         /\ StatusResponse(h, db).authenticated # "true"
         /\ ProfileResponse(h, db).user = None
         /\ DashboardResponse(h, db).user = None
         /\ LET NotRun(r) == ~r.resp.handler /\ r.tasks = tasks
            IN ForAllTaskResults(h, db, NotRun)
    /\ StatusResponse(h, TRUE).authenticated = "false"
    /\ ProfileResponse(h, TRUE).status = 401
    /\ DashboardResponse(h, TRUE).status = 401
    /\ LET Refused(r) == IsAuthRequired(r.resp)
       IN ForAllTaskResults(h, TRUE, Refused)

\* An unexpired session whose Account was removed, asked for the task list.
C5_Witness ==
  \E h \in Cookies : Orphaned(h) /\ TasksListResult(h, TRUE).resp.status = 401

\* -------------------------------------------------------------------- C6
\* C6: once maxAge has passed since a session was issued, a request with its
\* cookie has no user attached.
C6_InvalidAfterTtl ==
  \A h \in DOMAIN sessions :
    now >= sessions[h].issuedAt + maxAge => Authenticate(h, TRUE).user = None

\* -------------------------------------------------------------------- C7
\* C7: the expiry of a stored session is its issuance time plus maxAge,
\* whatever requests were made with it.
C7_ExpiryFixedAtIssuance ==
  \A h \in DOMAIN sessions : sessions[h].expires = sessions[h].issuedAt + maxAge

\* -------------------------------------------------------------------- C8
\* C8: a login callback has two outcomes: it issues a session bound to the
\* reconciled Account and redirects to /dashboard, or it issues no session
\* and redirects to /login-failed.
C8_CallbackTwoOutcomes ==
  /\ [](\A h \in Cookies : \A i \in LoginInputs(h) :
          LET r == CallbackResponse(h, i.x, i.p, i.db)
          IN \/ /\ r.status = 302 /\ r.location = "/dashboard"
                /\ r.setSid # None
                /\ LoggedIn(h, i.x, i.p, i.db)
             \/ /\ r.status = 302 /\ r.location = "/login-failed"
                /\ r.setSid = None
                /\ ~LoggedIn(h, i.x, i.p, i.db))
  /\ [][\A h \in Cookies : \A i \in LoginInputs(h) :
          GoogleCallback(h, i.x, i.p, i.db) =>
            IF LoggedIn(h, i.x, i.p, i.db)
            THEN /\ DOMAIN sessions' \ DOMAIN sessions = {nextSid}
                 /\ sessions'[nextSid].user \in AccountsOf(users', i.p.id)
            ELSE DOMAIN sessions' \subseteq DOMAIN sessions
       ]_vars

\* -------------------------------------------------------------------- C9
\* The profile's subject id is not stored and its email belongs to an
\* Account of another subject id.
EmailConflict(p) ==
  /\ AccountsOf(users, p.id) = {}
  /\ \E u \in DOMAIN users : users[u].email = p.email /\ users[u].googleId # p.id

\* C9: a login whose profile has an unstored subject id and the email of an
\* Account of another subject id fails with a conflict: the Account
\* collection is unchanged (no Account created, none modified), no session
\* is issued and no stored session changes its user, one insert is attempted
\* and not retried, and the login ends as a login failure: the redirect to
\* /login-failed.
C9_EmailConflictFailsLogin ==
  /\ [](\A p \in {q \in Profiles : EmailConflict(q)} : \A h \in Cookies :
          LET r == CallbackResponse(h, "profile", p, TRUE)
          IN /\ verify(p, TRUE).err
             /\ verify(p, TRUE).inserts <= 1 /\ verify(p, TRUE).updates = 0
             /\ r.setSid = None
             /\ r.status = 302 /\ r.location = "/login-failed")
  /\ [][\/ /\ users' = users /\ nextUid' = nextUid /\ nextSid' = nextSid
           /\ DOMAIN sessions' \subseteq DOMAIN sessions
           /\ \A k \in DOMAIN sessions' :
                sessions'[k].user \in {sessions[k].user, None}
        \/ \A p \in {q \in Profiles : EmailConflict(q)} : \A h \in Cookies :
             ~GoogleCallback(h, "profile", p, TRUE)
       ]_vars

\* ------------------------------------------------------------------- C10
\* C10: GET /auth/status answers 200 with success in every state of the
\* request's session and of the store, 'authenticated' is true or false, and
\* the body carries a user exactly when it is true.
C10_StatusNeverFails ==
  \A h \in Cookies : \A db \in Db(h) :
    LET r == StatusResponse(h, db)
    IN /\ r.status = 200 /\ r.success
       /\ r.authenticated \in {"true", "false"}
       /\ (r.user # None) <=> (r.authenticated = "true")

\* ------------------------------------------------------------------- C11
\* C11: GET /auth/google with a valid session is redirected to /dashboard
\* and not to the provider; only a request without a valid session is
\* redirected to the provider.
C11_GuestGateOnLogin ==
  \A h \in Cookies :
    LET r == GoogleResponse(h, TRUE)
    IN /\ r.status = 302
       /\ Validates(h) => (r.location = "/dashboard" /\ ~ensureGuest(r.reqUser))
       /\ ~Validates(h) => (r.location = ProviderUrl /\ ensureGuest(r.reqUser))

\* ------------------------------------------------------------------- C12
\* C12: a session id that was issued and is no longer returned by the store
\* (destroyed by a logout, or expired) is not returned by the store after any
\* later step, and no request with it is authenticated again.
C12_InvalidIsAbsorbing ==
  [][\/ (sessions' = sessions /\ now' = now /\ nextSid' = nextSid)
     \/ \A h \in Cookies \ {None} :
          ~Live(h) => /\ ~Live(h)'
                      /\ ~Validates(h)'
                      /\ Authenticate(h, TRUE)'.user = None
    ]_vars

\* A session that expired beside a session of the same Account, issued by a
\* later login, that validates.
C12_Witness ==
  \E h1, h2 \in Cookies \ {None} :
    /\ h1 < h2
    /\ h1 \in DOMAIN sessions /\ sessions[h1].expires <= now
    /\ Validates(h2)
    /\ sessions[h2].user = sessions[h1].user
    /\ sessions[h2].issuedAt >= sessions[h1].expires

\* ------------------------------------------------------------------- C13
\* C13: a reconcile call that completes makes exactly one write: when the
\* subject id is stored, one update of the found Account and no insert (no
\* other Account differs afterwards); when it is not, one insert of one new
\* Account and no update (every stored Account is as before).
C13_OneWritePerReconcile ==
  \A p \in Profiles :
    LET v == verify(p, TRUE)
        found == FindByGoogleId(p.id)
        inserted == DOMAIN v.users \ DOMAIN users
        changed == {u \in DOMAIN users :
                      u \notin DOMAIN v.users \/ v.users[u] # users[u]}
    IN ~v.err =>
         /\ v.inserts + v.updates = 1
         /\ IF found # {}
            THEN v.updates = 1 /\ inserted = {} /\ changed \subseteq found
            ELSE v.inserts = 1 /\ Cardinality(inserted) = 1 /\ changed = {}

\* One profile's subject id is stored, with an older lastLogin, and its
\* reconcile updates; another profile's is not, and its reconcile inserts.
C13_Witness ==
  \E p, q \in Profiles :
    /\ FindByGoogleId(p.id) # {}
    /\ verify(p, TRUE).updates = 1 /\ verify(p, TRUE).users # users
    /\ FindByGoogleId(q.id) = {}
    /\ verify(q, TRUE).inserts = 1 /\ verify(q, TRUE).created

\* ------------------------------------------------------------------- C14
\* C14: a session is bound to one Account id and an Account may have several
\* sessions; a logout with one session's cookie leaves every other stored
\* session as it was (same user, same expiry), those of the same Account
\* included, and each of them validates afterwards iff it did before.
C14_LogoutOnlyThatSession ==
  [][\/ sessions' = sessions
     \/ \A h \in Cookies : \A db \in Db(h) :
          Logout(h, db) =>
            \A k \in DOMAIN sessions \ {h} :
              /\ k \in DOMAIN sessions'
              /\ sessions'[k] = sessions[k]
              /\ Validates(k)' <=> Validates(k)
    ]_vars

\* Only one Account was ever created; a logout was performed on its later
\* session and its earlier session validates.
C14_Witness ==
  \E h1, h2 \in Cookies \ {None} :
    /\ h2 < h1
    /\ h1 \in revoked
    /\ nextUid = 2
    /\ Validates(h2) /\ sessions[h2].user = 1

\* ------------------------------------------------------------------- C15
\* C15: a request to /auth/google, /auth/logout, /auth/status, /auth/profile,
\* /dashboard or a guarded task route leaves the Account collection as it
\* was; a login callback deletes no Account and changes no field of a stored
\* Account other than lastLogin; and over every step an Account keeps its
\* subject id and creation timestamp, ids of Accounts being never reused.
C15_AccountsWrittenOnlyByLogin ==
  /\ [][\/ users' = users
        \/ \A h \in Cookies : \A db \in Db(h) :
             ~(\/ Google(h, db) \/ Logout(h, db) \/ Status(h, db)
               \/ Profile(h, db) \/ Dashboard(h, db) \/ TasksList(h, db))
       ]_vars
  /\ [][\/ users' = users
        \/ \A h \in Cookies : \A i \in LoginInputs(h) :
             GoogleCallback(h, i.x, i.p, i.db) =>
               /\ DOMAIN users \subseteq DOMAIN users'
               /\ DOMAIN users' \ DOMAIN users \subseteq {nextUid}
               /\ \A u \in DOMAIN users :
                    [users'[u] EXCEPT !.lastLogin = users[u].lastLogin]
                      = users[u]
       ]_vars
  /\ [][\/ users' = users
        \/ /\ nextUid' >= nextUid
           /\ \A u \in DOMAIN users' : u < nextUid'
           /\ \A u \in DOMAIN users \cap DOMAIN users' :
                /\ users'[u].googleId = users[u].googleId
                /\ users'[u].createdAt = users[u].createdAt
       ]_vars

\* An Account whose lastLogin a later login has set, after a logout was
\* performed, with a session of it that validates.
C15_Witness ==
  \E h \in Cookies \ {None} :
    /\ Validates(h)
    /\ users[sessions[h].user].lastLogin > users[sessions[h].user].createdAt
    /\ revoked # {}

\* ------------------------------------------------------------------- C16
\* C16: a request during which the store rejects (the lookup of the session's
\* user, or the reconcile of a login) is answered with status 500 and a
\* message, and the body carries no detail of the error.
C16_ErrorsCarryNoDetail ==
  /\ \A h \in Cookies :
       StoreFails(h, FALSE) =>
         \A r \in {GoogleResponse(h, FALSE), LogoutResponse(h, FALSE),
                   StatusResponse(h, FALSE), ProfileResponse(h, FALSE),
                   DashboardResponse(h, FALSE),
                   TasksListResult(h, FALSE).resp} :
           r.status = 500 /\ r.message # "" /\ ~r.errorDetail
  /\ \A h \in Cookies : \A p \in Profiles :
       LET r == CallbackResponse(h, "profile", p, FALSE)
       IN r.status = 500 /\ r.message # "" /\ ~r.errorDetail

\* ------------------------------------------------------------------- C17
\* C17: a first login (subject id not stored, email not taken) with a profile
\* that has subject id, email and display name but neither profile.name nor
\* profile.photos succeeds: an Account without first name and picture is
\* created and the callback issues a session and redirects to /dashboard.
C17_OptionalProfileFields ==
  \A p \in Profiles : \A h \in Cookies :
    (/\ p.id # NoId /\ p.email # NoEmail /\ p.displayName
     /\ ~p.name /\ ~p.photo
     /\ FindByGoogleId(p.id) = {} /\ ~EmailConflict(p)) =>
      LET v == verify(p, TRUE)
          r == CallbackResponse(h, "profile", p, TRUE)
      IN /\ ~v.err /\ v.created
         /\ v.users[v.user].googleId = p.id
         /\ ~v.users[v.user].firstName /\ ~v.users[v.user].picture
         /\ r.status = 302 /\ r.location = "/dashboard" /\ r.setSid # None

C19_BindingNeverChanges ==
  /\ [](\A h \in Cookies :
          Validates(h) =>
            /\ StatusResponse(h, TRUE).authenticated = "true"
            /\ StatusResponse(h, TRUE).user = sessions[h].user
            /\ ProfileResponse(h, TRUE).status = 200
            /\ ProfileResponse(h, TRUE).user = sessions[h].user
            /\ sessions[h].user \in DOMAIN users)
  /\ [][\/ sessions' = sessions
        \/ \A k \in DOMAIN sessions \cap DOMAIN sessions' :
             (Validates(k) /\ Validates(k)') =>
               sessions'[k].user = sessions[k].user
       ]_vars
  /\ [][\/ nextSid' = nextSid
        \/ \A h \in Cookies : \A p \in Profiles :
             GoogleCallback(h, "profile", p, TRUE) =>
               /\ sessions'[nextSid].user = verify(p, TRUE).user
               /\ users'[sessions'[nextSid].user].googleId = p.id
       ]_vars

\* Sessions of two Accounts validate, the later one issued after a request
\* was made with the earlier one, and each gets its own Account back.
C19_Witness ==
  \E h1, h2 \in Cookies \ {None} :
    /\ Validates(h1) /\ Validates(h2)
    /\ sessions[h1].user # sessions[h2].user
    /\ sessions[h1].expires > sessions[h1].issuedAt + maxAge
    /\ sessions[h2].issuedAt > sessions[h1].issuedAt
    /\ StatusResponse(h2, TRUE).user = sessions[h2].user
    /\ ProfileResponse(h1, TRUE).user = sessions[h1].user

====
